---------------------------- MODULE Spec2Model ----------------------------
(***************************************************************************)
(* Model of the Warhammer40K-The-Librarian harvesting scripts:             *)
(*   - main / fetch_with_backoff / sleep_politely of                       *)
(*     KnowledgeGraph/fetch_warhammer_pages_for_lightrag.py, and           *)
(*     fetch_with_backoff of its v3                                        *)
(*   - page_generator / collect_all_urls of get_urls.py                    *)
(*   - normalize_categories, safe_filename, clean_pagecontent and          *)
(*     write_doc of KnowledgeGraph/url_split.py                            *)
(*   - node_to_markdown of the fetch scripts                               *)
(* Each program is a state machine of its own (SpecFetch, SpecFetchV3,     *)
(* SpecCrawl, SpecCategories, SpecSlug, SpecClean, SpecMarkdown); the      *)
(* variables of the programs that are not running stay at their idle       *)
(* values.                                                                 *)
(***************************************************************************)
EXTENDS Integers, Sequences, FiniteSets, TLC

(***************************************************************************)
(* Bounds of the model.                                                    *)
(***************************************************************************)
\* number of rows of the input CSV (page ids are 1..MaxPages)
MaxPages == 2
\* clock resolution: ticks per second
TicksPerSec == 2

(***************************************************************************)
(* Configuration of fetch_warhammer_pages_for_lightrag.py                  *)
(***************************************************************************)
REQUESTS_PER_SEC == 1
MAX_RETRIES == 6
INITIAL_BACKOFF == 2
\* the literal 60 of min(backoff * 2, 60)
BACKOFF_CAP == 60

Min(a, b) == IF a < b THEN a ELSE b

RECURSIVE Pow2(_)
Pow2(n) == IF n = 0 THEN 1 ELSE 2 * Pow2(n - 1)

VARIABLES
  \* ---- main / fetch_with_backoff ----
  pages,          \* df: the page ids of the input, duplicates dropped
  idx,            \* position of the for loop of main in pages (1-based)
  pc,             \* "loop" | "fetch" | "process" | "done"
  attempt,        \* loop variable of fetch_with_backoff
  backoff,        \* local of fetch_with_backoff, in seconds
  elapsed,        \* time.time() - last_req_time, in ticks, saturated at min_gap
  sinceReq,       \* ticks since the start of the latest HTTP request (saturated), -1: none yet
  gap,            \* ticks between the starts of the two latest HTTP requests (saturated), -1: none
  reqCount,       \* HTTP requests issued by the current call of fetch_with_backoff
  reqParams,      \* page id carried by each request of the current call
  sleeps,         \* base backoff (seconds, jitter excluded) of each backoff sleep of the current call
  lastResp,       \* the response the latest request received
  callResult,     \* how the latest call of fetch_with_backoff ended: "none" | "returned" | "raised"
  data,           \* the body fetch_with_backoff returned to main
  visited,        \* page ids in the order the loop of main took them
  docs,           \* page ids for which write_markdown returned a path
  files,          \* page ids whose output path exists in OUT_DIR
  fail_rows,      \* page ids appended to fail_rows
  \* ---- page_generator / collect_all_urls ----
  g_pc,           \* "idle" | "request" | "yield" | "done" | "returned" | "raised"
  cont,           \* cont: the cursor, a set of <<key, value>> pairs
  g_data,         \* data: the latest decoded listing response
  g_decoded,      \* whether any listing response has been decoded yet
  g_next,         \* position in data["query"]["pages"] of the record to yield next
  g_reqs,         \* session.get calls issued so far
  g_params,       \* the params of the latest session.get
  g_outcome,      \* "none" | "ok" | the kind of failure of the latest session.get
  g_nap,          \* the latest time.sleep of the generator, in tenths of a second
  rows,           \* rows of collect_all_urls: <<request number, position>> of each record
  \* ---- normalize_categories ----
  n_pc,           \* "idle" | "call" | "done"
  n_names,        \* the category names the input stands for, in order
  n_shape,        \* the shape the input is given in
  n_raw,          \* raw: the argument of normalize_categories
  n_out,          \* the list normalize_categories returned
  \* ---- process / write_doc / safe_filename ----
  taken,          \* taken: the candidates safe_filename has handed out
  s_i,            \* pages the loop of process has gone through
  s_titles,       \* page.title of each call of safe_filename, in call order
  s_names,        \* the file name each call of safe_filename returned
  \* ---- clean_pagecontent / write_doc ----
  c_pc,           \* "idle" | "call" | "done"
  c_pre,          \* the text of the page before its first heading
  c_secs,         \* the level-2 sections of the page, in order
  c_html,         \* parse["text"]: the argument of clean_pagecontent
  c_out,          \* the string clean_pagecontent returned
  c_parts,        \* parts at the end of the loop
  c_keys,         \* key of each pass of the loop
  c_kept,         \* whether each pass of the loop appended to parts
  c_doc,          \* content: what write_doc wrote
  \* ---- node_to_markdown ----
  m_pc,           \* "idle" | "call" | "done"
  m_node,         \* node: the argument of node_to_markdown
  m_out           \* the string node_to_markdown returned

fetchVars == <<pages, idx, pc, attempt, backoff, elapsed, sinceReq, gap, reqCount,
               reqParams, sleeps, lastResp, callResult, data, visited, docs, files, fail_rows>>

genVars == <<g_pc, cont, g_data, g_decoded, g_next, g_reqs, g_params, g_outcome, g_nap, rows>>

catVars == <<n_pc, n_names, n_shape, n_raw, n_out>>

slugVars == <<taken, s_i, s_titles, s_names>>

cleanVars == <<c_pc, c_pre, c_secs, c_html, c_out, c_parts, c_keys, c_kept, c_doc>>

mdVars == <<m_pc, m_node, m_out>>

vars == <<fetchVars, genVars, catVars, slugVars, cleanVars, mdVars>>

(***************************************************************************)
(* HTTP responses.  status 0 / body "none" stands for session.get raising  *)
(* a requests.RequestException (timeout, connection reset).                *)
(*   body "page"    {"parse": {"text": <html>, ...}}                       *)
(*        "empty"   {"parse": {"text": ""}} or no parse payload            *)
(*        "maxlag"  {"error": {"code": "maxlag", ...}}                     *)
(*        "apierr"  {"error": {"code": <anything else>, ...}}              *)
(*        "errstr"  {"error": "<text>"}: data["error"].get raises          *)
(*        "badjson" r.json() raises                                        *)
(***************************************************************************)
Statuses == {200, 404, 429, 503}
Bodies == {"page", "empty", "maxlag", "apierr", "errstr", "badjson"}
NoResponse == [status |-> 0, body |-> "none"]
Responses == [status : Statuses, body : Bodies] \cup {NoResponse}

\* how long one session.get may take, in ticks (half a second, a second)
ReqDurations == {1, TicksPerSec}
\* random.uniform(0, 1.0), in ticks
Jitters == 0 .. TicksPerSec

\* sleep_politely: min_gap = 1.0 / max(rps, 0.01)
MinGap == TicksPerSec \div REQUESTS_PER_SEC

\* an age after d more ticks; ages are only ever compared with min_gap
Age(a, d) == IF a < 0 THEN a ELSE Min(a + d, MinGap)

\* sleep_politely(last_time, rps): the ticks slept
PoliteSleep(el) == IF el < MinGap THEN MinGap - el ELSE 0

\* a status test that forgets 429
RetryStatus_Only5xx(r) == 500 <= r.status /\ r.status < 600

\* r.status_code == 429 or 500 <= r.status_code < 600
RetryStatus(r) == r.status = 429 \/ (500 <= r.status /\ r.status < 600)

\* an error test that does not look at the code
IsMaxlag_AnyError(r) == r.body \in {"maxlag", "apierr"}

\* isinstance(data, dict) and "error" in data and data["error"].get("code") == "maxlag"
IsMaxlag(r) == r.body = "maxlag"

\* the condition above raises AttributeError: data["error"] has no .get
ErrorNotDict(r) == r.body = "errstr"

\* r.json() raises
JsonRaises(r) == r.body = "badjson"

FetchInit ==
  /\ pages \in {s \in UNION {[1 .. n -> 1 .. MaxPages] : n \in 0 .. MaxPages} :
                  \A i, j \in DOMAIN s : i # j => s[i] # s[j]}
  /\ idx = 1
  /\ pc = "loop"
  /\ attempt = 0
  /\ backoff = 0
  /\ elapsed = MinGap
  /\ sinceReq = -1
  /\ gap = -1
  /\ reqCount = 0
  /\ reqParams = <<>>
  /\ sleeps = <<>>
  /\ lastResp = NoResponse
  /\ callResult = "none"
  /\ data = "none"
  /\ visited = <<>>
  /\ docs = {}
  /\ files = {}
  /\ fail_rows = <<>>

(***************************************************************************)
(* fetch_with_backoff                                                      *)
(***************************************************************************)
\* session.get(API_ENDPOINT, params=params, timeout=TIMEOUT) receives r, and t
\* ticks pass until the next statement that reads the clock or issues a request
IssueRequest(r, t) ==
  /\ gap' = sinceReq
  /\ sinceReq' = Min(t, MinGap)
  /\ elapsed' = Age(elapsed, t)
  /\ reqCount' = reqCount + 1
  /\ reqParams' = Append(reqParams, pages[idx])
  /\ lastResp' = r

\* a loop that runs once too often
InLoop_OneMore == pc = "fetch" /\ attempt <= MAX_RETRIES + 1

\* for attempt in range(1, MAX_RETRIES + 1): the body runs
InLoop == pc = "fetch" /\ attempt <= MAX_RETRIES

\* a handler that records the failure and gives up the batch
MainExcept_Abort ==
  /\ fail_rows' = Append(fail_rows, pages[idx])
  /\ idx' = idx + 1
  /\ pc' = "done"
  /\ UNCHANGED <<pages, visited, docs>>

\* except Exception as e (of main): print, fail_rows.append, next row
MainExcept ==
  /\ fail_rows' = Append(fail_rows, pages[idx])
  /\ idx' = idx + 1
  /\ pc' = "loop"
  /\ UNCHANGED <<pages, visited, docs>>

\* if r.status_code == 429 or 500 <= r.status_code < 600:
\*     time.sleep(backoff); backoff *= 2; continue
FetchStatusRetry(r, dur) ==
  /\ InLoop
  /\ r # NoResponse
  /\ RetryStatus(r)
  /\ IssueRequest(r, dur + backoff * TicksPerSec)
  /\ sleeps' = Append(sleeps, backoff)
  /\ backoff' = backoff * 2
  /\ attempt' = attempt + 1
  /\ UNCHANGED <<pages, idx, pc, callResult, data, visited, docs, files, fail_rows>>

\* data = r.json(); the error code is maxlag:
\*     time.sleep(backoff + random.uniform(0, 1.0)); backoff = min(backoff * 2, 60); continue
FetchMaxlag(r, dur, jit) ==
  /\ InLoop
  /\ r # NoResponse
  /\ ~RetryStatus(r)
  /\ ~JsonRaises(r)
  /\ ~ErrorNotDict(r)
  /\ IsMaxlag(r)
  /\ IssueRequest(r, dur + backoff * TicksPerSec + jit)
  /\ sleeps' = Append(sleeps, backoff)
  /\ backoff' = Min(backoff * 2, BACKOFF_CAP)
  /\ attempt' = attempt + 1
  /\ UNCHANGED <<pages, idx, pc, callResult, data, visited, docs, files, fail_rows>>

\* return data
FetchReturn(r, dur) ==
  /\ InLoop
  /\ r # NoResponse
  /\ ~RetryStatus(r)
  /\ ~JsonRaises(r)
  /\ ~ErrorNotDict(r)
  /\ ~IsMaxlag(r)
  /\ IssueRequest(r, dur)
  /\ data' = r.body
  /\ callResult' = "returned"
  /\ pc' = "process"
  /\ UNCHANGED <<pages, idx, attempt, backoff, sleeps, visited, docs, files, fail_rows>>

\* except requests.RequestException: time.sleep(backoff); backoff = min(backoff * 2, 60)
\* (session.get raised, or r.json() raised requests' JSONDecodeError, which is a
\* RequestException from requests 2.27 on)
FetchRequestException(r, dur) ==
  /\ InLoop
  /\ r = NoResponse \/ (~RetryStatus(r) /\ JsonRaises(r))
  /\ IssueRequest(r, dur + backoff * TicksPerSec)
  /\ sleeps' = Append(sleeps, backoff)
  /\ backoff' = Min(backoff * 2, BACKOFF_CAP)
  /\ attempt' = attempt + 1
  /\ UNCHANGED <<pages, idx, pc, callResult, data, visited, docs, files, fail_rows>>

\* except Exception: time.sleep(backoff); backoff = min(backoff * 2, 60)
\*     if attempt == MAX_RETRIES: raise
\* (data["error"].get raised AttributeError, or r.json() raised a plain ValueError
\* as it does before requests 2.27)
FetchOtherException(r, dur) ==
  /\ InLoop
  /\ r # NoResponse
  /\ ~RetryStatus(r)
  /\ JsonRaises(r) \/ ErrorNotDict(r)
  /\ IssueRequest(r, dur + backoff * TicksPerSec)
  /\ sleeps' = Append(sleeps, backoff)
  /\ backoff' = Min(backoff * 2, BACKOFF_CAP)
  /\ IF attempt = MAX_RETRIES
       THEN /\ callResult' = "raised"
            /\ MainExcept
            /\ UNCHANGED <<attempt, data, files>>
       ELSE /\ attempt' = attempt + 1
            /\ UNCHANGED <<pages, idx, pc, callResult, data, visited, docs, files, fail_rows>>

\* raise RuntimeError("Max retries exceeded"), caught by the except of main
FetchExhausted ==
  /\ pc = "fetch"
  /\ attempt > MAX_RETRIES
  /\ callResult' = "raised"
  /\ MainExcept
  /\ UNCHANGED <<attempt, backoff, elapsed, sinceReq, gap, reqCount, reqParams, sleeps,
                 lastResp, data, files>>

(***************************************************************************)
(* main                                                                    *)
(***************************************************************************)
\* for idx, row in df.iterrows(): last_req_time = sleep_politely(...); params = {...};
\* fetch_with_backoff(session, params) is entered (backoff = INITIAL_BACKOFF)
MainIter ==
  /\ pc = "loop"
  /\ idx <= Len(pages)
  /\ visited' = Append(visited, pages[idx])
  /\ sinceReq' = Age(sinceReq, PoliteSleep(elapsed))
  /\ elapsed' = 0
  /\ backoff' = INITIAL_BACKOFF
  /\ attempt' = 1
  /\ reqCount' = 0
  /\ reqParams' = <<>>
  /\ sleeps' = <<>>
  /\ callResult' = "none"
  /\ data' = "none"
  /\ pc' = "fetch"
  /\ UNCHANGED <<pages, idx, gap, lastResp, docs, files, fail_rows>>

\* if "error" in data: raise RuntimeError(f"API error: {data['error']}")
MainApiError ==
  /\ pc = "process"
  /\ data \in {"apierr", "maxlag", "errstr"}
  /\ MainExcept
  /\ UNCHANGED <<attempt, backoff, elapsed, sinceReq, gap, reqCount, reqParams, sleeps,
                 lastResp, callResult, data, files>>

\* if not html: raise RuntimeError("Empty HTML content")
MainEmptyHtml ==
  /\ pc = "process"
  /\ data = "empty"
  /\ MainExcept
  /\ UNCHANGED <<attempt, backoff, elapsed, sinceReq, gap, reqCount, reqParams, sleeps,
                 lastResp, callResult, data, files>>

\* html_to_markdown raises, or write_markdown raises before it opens the file
MainConvertError ==
  /\ pc = "process"
  /\ data = "page"
  /\ MainExcept
  /\ UNCHANGED <<attempt, backoff, elapsed, sinceReq, gap, reqCount, reqParams, sleeps,
                 lastResp, callResult, data, files>>

\* write_markdown raises inside 'with open(path, "w")': the file exists, cut short
MainWriteError ==
  /\ pc = "process"
  /\ data = "page"
  /\ files' = files \cup {pages[idx]}
  /\ MainExcept
  /\ UNCHANGED <<attempt, backoff, elapsed, sinceReq, gap, reqCount, reqParams, sleeps,
                 lastResp, callResult, data>>

\* out_path = write_markdown(...); print(... wrote ...)
MainWrote ==
  /\ pc = "process"
  /\ data = "page"
  /\ docs' = docs \cup {pages[idx]}
  /\ files' = files \cup {pages[idx]}
  /\ idx' = idx + 1
  /\ pc' = "loop"
  /\ UNCHANGED <<pages, attempt, backoff, elapsed, sinceReq, gap, reqCount, reqParams,
                 sleeps, lastResp, callResult, data, visited, fail_rows>>

\* the loop is over: if fail_rows: write FAIL_LOG
MainFinish ==
  /\ pc = "loop"
  /\ idx > Len(pages)
  /\ pc' = "done"
  /\ UNCHANGED <<pages, idx, attempt, backoff, elapsed, sinceReq, gap, reqCount, reqParams,
                 sleeps, lastResp, callResult, data, visited, docs, files, fail_rows>>

\* what a step of main leaves alone
FetchFrame == UNCHANGED <<genVars, catVars, slugVars, cleanVars, mdVars>>

FetchNext ==
  \/ MainIter /\ FetchFrame
  \/ \E r \in Responses, dur \in ReqDurations : FetchStatusRetry(r, dur) /\ FetchFrame
  \/ \E r \in Responses, dur \in ReqDurations, jit \in Jitters :
        FetchMaxlag(r, dur, jit) /\ FetchFrame
  \/ \E r \in Responses, dur \in ReqDurations : FetchReturn(r, dur) /\ FetchFrame
  \/ \E r \in Responses, dur \in ReqDurations : FetchRequestException(r, dur) /\ FetchFrame
  \/ \E r \in Responses, dur \in ReqDurations : FetchOtherException(r, dur) /\ FetchFrame
  \/ FetchExhausted /\ FetchFrame
  \/ MainApiError /\ FetchFrame
  \/ MainEmptyHtml /\ FetchFrame
  \/ MainConvertError /\ FetchFrame
  \/ MainWriteError /\ FetchFrame
  \/ MainWrote /\ FetchFrame
  \/ MainFinish /\ FetchFrame

(***************************************************************************)
(* fetch_warhammer_pages_for_lightrag_v3.py: fetch_with_backoff.  main of  *)
(* v3 is the main above, statement for statement (its fail list is named   *)
(* fails), so its steps are MainIter, MainApiError, ... MainFinish.        *)
(***************************************************************************)
\* a try block that gives up on a retryable status
V3Raises_OnStatus(r) == r = NoResponse \/ JsonRaises(r) \/ RetryStatus(r)

\* the try block of v3 raises: session.get raises or r.json() raises
V3Raises(r) == r = NoResponse \/ JsonRaises(r)

\* r = session.get(...); return r.json()
V3FetchReturn(r, dur) ==
  /\ InLoop
  /\ ~V3Raises(r)
  /\ IssueRequest(r, dur)
  /\ data' = r.body
  /\ callResult' = "returned"
  /\ pc' = "process"
  /\ UNCHANGED <<pages, idx, attempt, backoff, sleeps, visited, docs, files, fail_rows>>

\* except Exception as e: raise RuntimeError(...), caught by the except of main
V3FetchRaise(r, dur) ==
  /\ InLoop
  /\ V3Raises(r)
  /\ IssueRequest(r, dur)
  /\ callResult' = "raised"
  /\ MainExcept
  /\ UNCHANGED <<attempt, backoff, sleeps, data, files>>

FetchV3Next ==
  \/ MainIter /\ FetchFrame
  \/ \E r \in Responses, dur \in ReqDurations : V3FetchReturn(r, dur) /\ FetchFrame
  \/ \E r \in Responses, dur \in ReqDurations : V3FetchRaise(r, dur) /\ FetchFrame
  \/ MainApiError /\ FetchFrame
  \/ MainEmptyHtml /\ FetchFrame
  \/ MainConvertError /\ FetchFrame
  \/ MainWriteError /\ FetchFrame
  \/ MainWrote /\ FetchFrame
  \/ MainFinish /\ FetchFrame

\* the state of main before it is started
FetchIdle ==
  /\ pages = <<>>
  /\ idx = 1
  /\ pc = "idle"
  /\ attempt = 0
  /\ backoff = 0
  /\ elapsed = MinGap
  /\ sinceReq = -1
  /\ gap = -1
  /\ reqCount = 0
  /\ reqParams = <<>>
  /\ sleeps = <<>>
  /\ lastResp = NoResponse
  /\ callResult = "none"
  /\ data = "none"
  /\ visited = <<>>
  /\ docs = {}
  /\ files = {}
  /\ fail_rows = <<>>

(***************************************************************************)
(* Claims about fetch_with_backoff and main, checked under SpecFetch.      *)
(***************************************************************************)
\* the retryable failures, in the words of the claims: a raised request exception,
\* HTTP 429, HTTP 5xx, the API error code maxlag, or a body the client cannot use
IsRetrySignal(r) ==
  \/ r.status = 429
  \/ r.status \in 500 .. 599
  \/ (r.status \in 1 .. 428 \cup 430 .. 499 /\ r.body = "maxlag")

IsRetryableFailure(r) ==
  IsRetrySignal(r) \/ r.status = 0 \/ r.body \in {"badjson", "errstr"}

\* C1: after the k-th consecutive retryable failure of a call the base backoff slept
\* is min(INITIAL_BACKOFF * 2^(k-1), 60) seconds: 2, 4, 8, 16, 32, 60, ...
C1_BackoffSequence ==
  \A k \in 1 .. Len(sleeps) : sleeps[k] = Min(INITIAL_BACKOFF * Pow2(k - 1), 60)

\* C2: a call issues at most MAX_RETRIES requests, one per attempt; it returns only a
\* response that is no retryable failure, and a call whose attempts all failed ends by
\* raising after exactly MAX_RETRIES requests
C2_BoundedAttempts ==
  /\ reqCount <= MAX_RETRIES
  /\ pc = "fetch" => attempt = reqCount + 1
  /\ callResult = "returned" => ~IsRetryableFailure(lastResp)
  /\ callResult = "raised" => reqCount = MAX_RETRIES /\ IsRetryableFailure(lastResp)
  /\ (callResult = "none" /\ reqCount = MAX_RETRIES) => (pc = "fetch" /\ ENABLED FetchExhausted)

C2_Witness ==
  /\ callResult = "raised"
  /\ reqCount = MAX_RETRIES
  /\ Len(sleeps) = MAX_RETRIES

\* C3: attempt k < MAX_RETRIES that receives 429, 5xx or the error code maxlag does not
\* return: the client sleeps the current backoff and goes on to attempt k+1 of the
\* same call, and every request of a call carries the same parameters
C3_RetrySignalRetried ==
  /\ [][(pc = "fetch" /\ attempt < MAX_RETRIES /\ reqCount' = reqCount + 1
           /\ IsRetrySignal(lastResp'))
        => /\ pc' = "fetch"
           /\ attempt' = attempt + 1
           /\ callResult' = "none"
           /\ data' = "none"
           /\ sleeps' = Append(sleeps, backoff)
           /\ idx' = idx]_vars
  /\ [](\A i \in DOMAIN reqParams : reqParams[i] = reqParams[1])

C3_Witness ==
  /\ pc = "fetch"
  /\ attempt = 3
  /\ reqCount = 2
  /\ lastResp = [status |-> 429, body |-> "page"]
  /\ sleeps = <<2, 4>>

\* C4: a response with a non-retryable status and an API error whose code is not
\* maxlag ends the call at once (no backoff sleep, no further request of that call),
\* and main records a failure for that page and goes on with the next row
C4_ApiErrorNotRetried ==
  /\ [][(pc = "fetch" /\ reqCount' = reqCount + 1 /\ ~IsRetrySignal(lastResp')
           /\ lastResp'.body = "apierr")
        => /\ pc' = "process"
           /\ callResult' = "returned"
           /\ data' = "apierr"
           /\ sleeps' = sleeps]_vars
  /\ [][(pc = "process" /\ data = "apierr")
        => /\ reqCount' = reqCount
           /\ sleeps' = sleeps
           /\ fail_rows' = Append(fail_rows, pages[idx])
           /\ docs' = docs
           /\ idx' = idx + 1
           /\ pc' = "loop"]_vars

C4_Witness ==
  /\ pc = "loop"
  /\ callResult = "returned"
  /\ data = "apierr"
  /\ reqCount = 1
  /\ sleeps = <<>>
  /\ idx = 2
  /\ fail_rows = <<pages[1]>>

\* C5: any two consecutive HTTP requests of a run start at least 1/REQUESTS_PER_SEC
\* seconds apart
C5_MinimumGap == gap = -1 \/ gap >= MinGap

\* number of records of fail_rows for page p
FailCount(p) == Cardinality({i \in DOMAIN fail_rows : fail_rows[i] = p})

C20_SleepsOnlyBetweenAttempts ==
  callResult # "none" => Len(sleeps) = reqCount - 1

(***************************************************************************)
(* Claims about fetch_with_backoff of v3, checked under SpecFetchV3.       *)
(***************************************************************************)
\* C19: a call of the v3 fetch_with_backoff issues exactly one request and never
\* sleeps: an exception of that request is raised at once, and a response with a
\* decodable body is returned whatever its status and error code; attempt 2 is
\* never reached
C19_V3SingleAttempt ==
  /\ [](reqCount <= 1 /\ attempt <= 1 /\ sleeps = <<>>)
  /\ [](callResult # "none" => reqCount = 1)
  /\ [][(pc = "fetch" /\ reqCount' = reqCount + 1)
        => IF lastResp'.body \in {"none", "badjson"}
             THEN callResult' = "raised" /\ data' = "none" /\ pc' = "loop"
             ELSE callResult' = "returned" /\ data' = lastResp'.body /\ pc' = "process"]_vars

C19_Witness ==
  /\ callResult = "returned"
  /\ reqCount = 1
  /\ lastResp = [status |-> 429, body |-> "maxlag"]
  /\ data = "maxlag"
  /\ pc = "process"

(***************************************************************************)
(* get_urls.py: page_generator and collect_all_urls                        *)
(***************************************************************************)
\* bound on the session.get calls of one run of page_generator
MaxRequests == 4
\* bound on the records of one listing response
MaxRecords == 2

\* params of page_generator (gaplimit and namespace at their defaults)
BaseParams ==
  {<<"action", "query">>, <<"format", "json">>, <<"formatversion", "2">>,
   <<"generator", "allpages">>, <<"gaplimit", "200">>, <<"prop", "info">>,
   <<"inprop", "url">>, <<"gapnamespace", "0">>}

\* continue objects the API may send
TokenB == {<<"continue", "gapcontinue||">>, <<"gapcontinue", "B">>}
TokenAlt == {<<"continue", "-||">>, <<"gapfrom", "D">>}
EmptyToken == {}
ContObjs == {TokenB, TokenAlt, EmptyToken}

Keys(m) == {kv[1] : kv \in m}

\* {**a, **b}: the pairs of b, and those of a whose key b does not hold
Merge(a, b) == {kv \in a : kv[1] \notin Keys(b)} \cup b

\* decoded listing responses: query is '"query" in data and "pages" in data["query"]',
\* pages the number of records, hasCont is '"continue" in data', error is
\* '"error" in data' (an API error object: no query payload, no continue object)
Listings ==
  {d \in [query : BOOLEAN, pages : 0 .. MaxRecords, hasCont : BOOLEAN, cont : ContObjs,
          error : BOOLEAN] :
     /\ ~d.query => d.pages = 0
     /\ ~d.hasCont => d.cont = EmptyToken
     /\ d.error => ~d.query /\ ~d.hasCont}

NoListing ==
  [query |-> FALSE, pages |-> 0, hasCont |-> FALSE, cont |-> EmptyToken, error |-> FALSE]

\* what makes the try block of page_generator raise: session.get raises,
\* resp.raise_for_status() raises, resp.json() raises
FailureKinds == {"network", "http_error", "undecodable"}

GenInit ==
  /\ g_pc = "request"
  /\ cont = EmptyToken
  /\ g_data = NoListing
  /\ g_decoded = FALSE
  /\ g_next = 0
  /\ g_reqs = 0
  /\ g_params = {}
  /\ g_outcome = "none"
  /\ g_nap = 0
  /\ rows = <<>>

\* the state of page_generator before it is started
GenIdle ==
  /\ g_pc = "idle"
  /\ cont = EmptyToken
  /\ g_data = NoListing
  /\ g_decoded = FALSE
  /\ g_next = 0
  /\ g_reqs = 0
  /\ g_params = {}
  /\ g_outcome = "none"
  /\ g_nap = 0
  /\ rows = <<>>

\* resp = session.get(api, params={**params, **cont}, timeout=30)
GenSend ==
  /\ g_pc = "request"
  /\ g_reqs < MaxRequests
  /\ g_reqs' = g_reqs + 1
  /\ g_params' = Merge(BaseParams, cont)

\* a loop that goes on until a listing holds no record
AfterPages_UntilEmpty(d) ==
  IF d.hasCont \/ d.pages > 0
    THEN /\ cont' = d.cont
         /\ g_nap' = 1
         /\ g_pc' = "request"
    ELSE /\ g_pc' = "done"
         /\ UNCHANGED <<cont, g_nap>>

\* a cursor that is updated in place (cont.update(data["continue"]))
AfterPages_Update(d) ==
  IF d.hasCont
    THEN /\ cont' = Merge(cont, d.cont)
         /\ g_nap' = 1
         /\ g_pc' = "request"
    ELSE /\ g_pc' = "done"
         /\ UNCHANGED <<cont, g_nap>>

\* if "continue" in data: cont = data["continue"]; time.sleep(0.1)  else: break
AfterPages(d) ==
  IF d.hasCont
    THEN /\ cont' = d.cont
         /\ g_nap' = 1
         /\ g_pc' = "request"
    ELSE /\ g_pc' = "done"
         /\ UNCHANGED <<cont, g_nap>>

\* a handler that lets the failure out of the generator
GenRequestFail_Raise(kind) ==
  /\ GenSend
  /\ g_outcome' = kind
  /\ g_pc' = "raised"
  /\ UNCHANGED <<cont, g_data, g_decoded, g_next, g_nap, rows>>

\* except Exception as e: print(...); time.sleep(1.5); continue
GenRequestFail(kind) ==
  /\ GenSend
  /\ g_outcome' = kind
  /\ g_nap' = 15
  /\ g_pc' = "request"
  /\ UNCHANGED <<cont, g_data, g_decoded, g_next, rows>>

\* the try block succeeds with data = d; a listing with records is yielded record by
\* record, a listing without goes straight to the test of "continue"
GenRequestOk(d) ==
  /\ GenSend
  /\ g_outcome' = "ok"
  /\ g_data' = d
  /\ g_decoded' = TRUE
  /\ IF d.query /\ d.pages > 0
       THEN /\ g_pc' = "yield"
            /\ g_next' = 1
            /\ UNCHANGED <<cont, g_nap>>
       ELSE /\ AfterPages(d)
            /\ g_next' = 0
  /\ UNCHANGED rows

\* yield p; collect_all_urls appends its row and asks for the next record
GenYield ==
  /\ g_pc = "yield"
  /\ rows' = Append(rows, <<g_reqs, g_next>>)
  /\ IF g_next < g_data.pages
       THEN /\ g_next' = g_next + 1
            /\ UNCHANGED <<g_pc, cont, g_nap>>
       ELSE /\ AfterPages(g_data)
            /\ g_next' = 0
  /\ UNCHANGED <<g_data, g_decoded, g_reqs, g_params, g_outcome>>

\* the generator is exhausted: return rows
CollectReturn ==
  /\ g_pc = "done"
  /\ g_pc' = "returned"
  /\ UNCHANGED <<cont, g_data, g_decoded, g_next, g_reqs, g_params, g_outcome, g_nap, rows>>

\* what a step of page_generator leaves alone
CrawlFrame == UNCHANGED <<fetchVars, catVars, slugVars, cleanVars, mdVars>>

CrawlNext ==
  \/ \E kind \in FailureKinds : GenRequestFail(kind) /\ CrawlFrame
  \/ \E d \in Listings : GenRequestOk(d) /\ CrawlFrame
  \/ GenYield /\ CrawlFrame
  \/ CollectReturn /\ CrawlFrame

(***************************************************************************)
(* url_split.py: normalize_categories.  A Python str is a sequence of      *)
(* one-character strings; a value is [t |-> "str", v |-> <characters>],    *)
(* [t |-> "dict", v |-> <characters>] for the record {'*': v}, or          *)
(* [t |-> "list", v |-> <sequence of values>].                             *)
(***************************************************************************)
\* bound on the number of categories of one input
MaxCats == 3

NameC == <<"C">>
NameBadabWar == <<"B", "a", "d", "a", "b", " ", "W", "a", "r">>
NameOrks == <<"O", "r", "k", "s">>
Names == {NameC, NameBadabWar, NameOrks}

\* the literal "Category:"
CategoryPrefix == <<"C", "a", "t", "e", "g", "o", "r", "y", ":">>

PyStrValue(chars) == [t |-> "str", v |-> chars]
PyDictValue(chars) == [t |-> "dict", v |-> chars]
PyListValue(items) == [t |-> "list", v |-> items]

Range(f) == {f[i] : i \in DOMAIN f}

RECURSIVE Join(_, _)
\* sep.join(parts)
Join(parts, sep) ==
  IF parts = <<>> THEN <<>>
  ELSE IF Len(parts) = 1 THEN parts[1]
  ELSE parts[1] \o sep \o Join(Tail(parts), sep)

IsSpace(c) == c = " "

RECURSIVE LStrip(_)
LStrip(s) == IF s # <<>> /\ IsSpace(Head(s)) THEN LStrip(Tail(s)) ELSE s

RECURSIVE RStrip(_)
RStrip(s) == IF s # <<>> /\ IsSpace(s[Len(s)]) THEN RStrip(SubSeq(s, 1, Len(s) - 1)) ELSE s

\* str.strip()
Strip(s) == RStrip(LStrip(s))

StartsWith(s, pat) == Len(pat) <= Len(s) /\ SubSeq(s, 1, Len(pat)) = pat

RECURSIVE Replace(_, _, _)
\* str.replace(old, new), old not empty
Replace(s, old, new) ==
  IF s = <<>> THEN <<>>
  ELSE IF StartsWith(s, old)
    THEN new \o Replace(SubSeq(s, Len(old) + 1, Len(s)), old, new)
    ELSE <<Head(s)>> \o Replace(Tail(s), old, new)

RECURSIVE Split(_, _)
\* str.split(sep), sep one character
Split(s, sep) ==
  IF \A i \in DOMAIN s : s[i] # sep THEN <<s>>
  ELSE LET i == CHOOSE k \in DOMAIN s : s[k] = sep /\ \A m \in 1 .. k - 1 : s[m] # sep
       IN <<SubSeq(s, 1, i - 1)>> \o Split(SubSeq(s, i + 1, Len(s)), sep)

RECURSIVE SkipWs(_, _)
\* the position of the first character of s at or after i that is no whitespace
SkipWs(s, i) == IF i <= Len(s) /\ IsSpace(s[i]) THEN SkipWs(s, i + 1) ELSE i

\* the position of the first '"' of s at or after i, 0 if there is none
QuoteAt(s, i) ==
  IF \E k \in i .. Len(s) : s[k] = "\""
    THEN CHOOSE k \in i .. Len(s) : s[k] = "\"" /\ \A m \in i .. k - 1 : s[m] # "\""
    ELSE 0

JsonFail == [ok |-> FALSE, kind |-> "none", val |-> <<>>]
JsonList(items) == [ok |-> TRUE, kind |-> "list", val |-> items]
JsonStr(chars) == [ok |-> TRUE, kind |-> "str", val |-> chars]

RECURSIVE JsonElements(_, _, _)
\* the elements of a JSON array from position i on, acc holding those already read
JsonElements(s, i, acc) ==
  LET j == SkipWs(s, i) IN
  IF j > Len(s) \/ s[j] # "\"" THEN JsonFail
  ELSE LET e == QuoteAt(s, j + 1) IN
       IF e = 0 THEN JsonFail
       ELSE LET k == SkipWs(s, e + 1)
                acc2 == Append(acc, SubSeq(s, j + 1, e - 1))
            IN IF k > Len(s) THEN JsonFail
               ELSE IF s[k] = "," THEN JsonElements(s, k + 1, acc2)
               ELSE IF s[k] = "]" /\ SkipWs(s, k + 1) > Len(s) THEN JsonList(acc2)
               ELSE JsonFail

\* json.loads(s) for the texts of the model (arrays of strings and string literals
\* without escapes; a text of the model that is neither is no JSON): the value, or
\* ok = FALSE where json.loads raises
json_loads(s) ==
  LET i == SkipWs(s, 1) IN
  IF i > Len(s) THEN JsonFail
  ELSE IF s[i] = "["
    THEN LET j == SkipWs(s, i + 1) IN
         IF j <= Len(s) /\ s[j] = "]"
           THEN (IF SkipWs(s, j + 1) > Len(s) THEN JsonList(<<>>) ELSE JsonFail)
           ELSE JsonElements(s, i + 1, <<>>)
  ELSE IF s[i] = "\""
    THEN LET e == QuoteAt(s, i + 1) IN
         IF e # 0 /\ SkipWs(s, e + 1) > Len(s) THEN JsonStr(SubSeq(s, i + 1, e - 1))
         ELSE JsonFail
  ELSE JsonFail

\* str(c): a str is itself, a dict {'*': v} is its repr
PyStr(c) ==
  IF c.t = "str" THEN c.v
  ELSE <<"{", "'", "*", "'", ":", " ", "'">> \o c.v \o <<"'", "}">>

RECURSIVE DictFromKeys(_)
\* list(dict.fromkeys(l)): the first occurrence of each element, in order
DictFromKeys(l) ==
  IF l = <<>> THEN <<>>
  ELSE LET r == DictFromKeys(SubSeq(l, 1, Len(l) - 1)) IN
       IF l[Len(l)] \in Range(r) THEN r ELSE Append(r, l[Len(l)])

\* what 'for c in raw' iterates over, after the json.loads / split(",") of a str
CategoryItems(raw) ==
  IF raw.t = "str"
    THEN LET parsed == json_loads(raw.v) IN
         IF parsed.ok
           THEN IF parsed.kind = "list"
                  THEN [i \in 1 .. Len(parsed.val) |-> PyStrValue(parsed.val[i])]
                  ELSE [i \in 1 .. Len(parsed.val) |-> PyStrValue(<<parsed.val[i]>>)]
           ELSE LET parts == Split(raw.v, ",") IN
                [i \in 1 .. Len(parts) |-> PyStrValue(parts[i])]
    ELSE raw.v

NonEmpty(s) == s # <<>>

\* normalize_categories(raw): clean every item, drop the empty ones, dedupe
normalize_categories(raw) ==
  LET items == CategoryItems(raw)
      stripped == [i \in 1 .. Len(items) |->
                     Strip(Replace(PyStr(items[i]), CategoryPrefix, <<>>))]
  IN DictFromKeys(SelectSeq(stripped, NonEmpty))

\* the shapes an input comes in
Shapes == {"json", "json_dumps", "csv", "csv_prefixed", "records"}

Quoted(name) == <<"\"">> \o name \o <<"\"">>

\* the input that stands for the names in a shape:
\*   json          ["C","Badab War"]
\*   json_dumps    ["C", "Badab War"]
\*   csv           C,Badab War
\*   csv_prefixed  Category:C, Category:Badab War
\*   records       [{'*': 'C'}, {'*': 'Badab War'}]
Encode(names, shape) ==
  CASE shape = "json" ->
         PyStrValue(<<"[">> \o Join([i \in 1 .. Len(names) |-> Quoted(names[i])], <<",">>)
                      \o <<"]">>)
    [] shape = "json_dumps" ->
         PyStrValue(<<"[">> \o Join([i \in 1 .. Len(names) |-> Quoted(names[i])], <<",", " ">>)
                      \o <<"]">>)
    [] shape = "csv" -> PyStrValue(Join(names, <<",">>))
    [] shape = "csv_prefixed" ->
         PyStrValue(Join([i \in 1 .. Len(names) |-> CategoryPrefix \o names[i]], <<",", " ">>))
    [] shape = "records" ->
         PyListValue([i \in 1 .. Len(names) |-> PyDictValue(names[i])])

CatInit ==
  /\ n_pc = "call"
  /\ n_names \in UNION {[1 .. n -> Names] : n \in 0 .. MaxCats}
  /\ n_shape \in Shapes
  /\ n_raw = Encode(n_names, n_shape)
  /\ n_out = <<>>

\* the state before normalize_categories is called
CatIdle ==
  /\ n_pc = "idle"
  /\ n_names = <<>>
  /\ n_shape = "json"
  /\ n_raw = PyStrValue(<<>>)
  /\ n_out = <<>>

\* what a call of normalize_categories leaves alone
CatFrame == UNCHANGED <<fetchVars, genVars, slugVars, cleanVars, mdVars>>

\* categories = normalize_categories(raw)
Normalize ==
  /\ n_pc = "call"
  /\ n_out' = normalize_categories(n_raw)
  /\ n_pc' = "done"
  /\ UNCHANGED <<n_names, n_shape, n_raw>>

CatNext ==
  \/ Normalize /\ CatFrame

(***************************************************************************)
(* KnowledgeGraph/url_split.py: safe_filename, called by write_doc for     *)
(* each page of process with the one set taken.  A title is a sequence of  *)
(* characters; EAcute is a precomposed accented letter, CombiningAcute the *)
(* combining mark its NFKD form carries.                                   *)
(***************************************************************************)
\* pages of the input CSV of process
MaxCalls == 3
\* the [:100] of write_markdown (fetch script), the one length limit the
\* repository puts on a file name
MaxSlugLen == 100

EAcute == "e-acute"
CombiningAcute == "combining-acute"

AsciiLetters == {"A", "a", "e", "g", "p"}
AsciiDigits == {"0", "1", "2", "3", "4", "5", "6", "7", "8", "9"}

\* the class [A-Za-z0-9]
IsAlnum(c) == c \in AsciiLetters \cup AsciiDigits

\* unicodedata.normalize("NFKD", title): every character gives its base letter and
\* the combining mark it carries, "" when it carries none
Nfkd(title) ==
  SelectSeq([n \in 1 .. 2 * Len(title) |->
               LET c == title[(n + 1) \div 2]
               IN  IF n % 2 = 1 THEN (IF c = EAcute THEN "e" ELSE c)
                   ELSE (IF c = EAcute THEN CombiningAcute ELSE "")],
            LAMBDA c : c # "")

\* "".join(c for c in txt if not unicodedata.combining(c))
DropCombining(txt) == SelectSeq(txt, LAMBDA c : c # CombiningAcute)

\* re.sub(r"[^A-Za-z0-9]+", "_", txt): the first character of a run of
\* [^A-Za-z0-9] becomes "_", the rest of the run goes
SubNonAlnum(txt) ==
  SelectSeq([n \in 1 .. Len(txt) |->
               IF IsAlnum(txt[n]) THEN txt[n]
               ELSE IF n = 1 \/ IsAlnum(txt[n - 1]) THEN "_"
               ELSE ""],
            LAMBDA c : c # "")

RECURSIVE StripUnderscores(_)
\* str.strip("_")
StripUnderscores(s) ==
  IF s # <<>> /\ Head(s) = "_" THEN StripUnderscores(Tail(s))
  ELSE IF s # <<>> /\ s[Len(s)] = "_" THEN StripUnderscores(SubSeq(s, 1, Len(s) - 1))
  ELSE s

\* the literal "page"
DefaultSlug == <<"p", "a", "g", "e">>

\* base: the cleaned title, "page" when nothing is left of it
SlugBase(title) ==
  LET txt == StripUnderscores(SubNonAlnum(DropCombining(Nfkd(title))))
  IN  IF txt = <<>> THEN DefaultSlug ELSE txt

DigitChars == <<"0", "1", "2", "3", "4", "5", "6", "7", "8", "9">>

RECURSIVE IntStr(_)
\* str(n) of a natural number, as the f-string formats idx
IntStr(n) == IF n < 10 THEN <<DigitChars[n + 1]>>
             ELSE IntStr(n \div 10) \o <<DigitChars[(n % 10) + 1]>>

\* candidate when idx is n: base, then f"{base}_{idx}"
Candidate(base, n) == IF n = 1 THEN base ELSE base \o <<"_">> \o IntStr(n)

RECURSIVE Resolve(_, _, _)
\* while candidate in taken: idx += 1; candidate = f"{base}_{idx}"
Resolve(base, tk, n) ==
  IF Candidate(base, n) \in tk THEN Resolve(base, tk, n + 1) ELSE Candidate(base, n)

\* the default of ext, ".md"
Ext == <<".", "m", "d">>

\* a safe_filename that looks for a free name once only
safe_filename_OneTry(title, tk) ==
  LET base == SlugBase(title)
      candidate == IF base \in tk THEN Candidate(base, 2) ELSE base
  IN  [name |-> candidate \o Ext, taken |-> tk \cup {candidate}]

\* safe_filename(title, taken): the name returned and taken as the call leaves it
safe_filename(title, tk) ==
  LET candidate == Resolve(SlugBase(title), tk, 1)
  IN  [name |-> candidate \o Ext, taken |-> tk \cup {candidate}]

TitleA == <<"A">>
TitleA2 == <<"A", "_", "2">>
TitleASpace2 == <<"A", " ", "2">>
TitlePunct == <<"!", "?">>
TitlePage == <<"p", "a", "g", "e">>
TitleAccent == <<EAcute>>
\* a title of MaxSlugLen + 1 letters
TitleLong == [i \in 1 .. MaxSlugLen + 1 |-> "A"]

Titles == {TitleA, TitleA2, TitleASpace2, TitlePunct, TitlePage, TitleAccent, TitleLong}

\* taken = set() of process
SlugInit ==
  /\ taken = {}
  /\ s_i = 0
  /\ s_titles = <<>>
  /\ s_names = <<>>

\* the state before process is started
SlugIdle ==
  /\ taken = {}
  /\ s_i = 0
  /\ s_titles = <<>>
  /\ s_names = <<>>

\* what process leaves alone
SlugFrame == UNCHANGED <<fetchVars, genVars, catVars, cleanVars, mdVars>>

\* one pass of the loop of process that reaches write_doc
ProcessWrite(title) ==
  /\ s_i < MaxCalls
  /\ s_i' = s_i + 1
  /\ LET r == safe_filename(title, taken)
     IN  /\ taken' = r.taken
         /\ s_names' = Append(s_names, r.name)
  /\ s_titles' = Append(s_titles, title)

\* one pass of the loop of process in which fetch_parse or clean_pagecontent raises
ProcessError ==
  /\ s_i < MaxCalls
  /\ s_i' = s_i + 1
  /\ UNCHANGED <<taken, s_titles, s_names>>

SlugNext ==
  \/ \E title \in Titles : ProcessWrite(title) /\ SlugFrame
  \/ ProcessError /\ SlugFrame

(***************************************************************************)
(* KnowledgeGraph/url_split.py: clean_pagecontent and write_doc.  A text   *)
(* is a sequence of tokens: a tag, a word (a run of letters and            *)
(* punctuation without whitespace or brackets), or one of the characters   *)
(* " ", "\n", "[", "]".  The input of clean_pagecontent is the rendering   *)
(* of a text before the first heading and of up to MaxSections sections.   *)
(***************************************************************************)
\* level-2 sections of the input page
MaxSections == 3

H2Open == {"<h2>", "<h2 id=x>"}
H2Close == "</h2>"
HtmlTags == H2Open \cup {H2Close, "<p>", "</p>", "<script>", "</script>", "<noscript>",
                         "</noscript>", "<style>", "</style>", "<figure>", "</figure>"}

\* the two characters backslash, n
EscapedNewline == "\\n"
Nbsp == "&nbsp;"

\* the whitespace of \s, str.strip() and str.split() among the tokens
IsWhite(c) == c \in {" ", "\n"}

BANNED_SECTIONS == {<<"contents">>, <<"videos">>, <<"sources">>, <<"gallery">>,
                    <<"bibliography">>}
INCLUDE_HEADINGS == TRUE

\* str.lower() of a word
LowerWord(w) ==
  CASE w \in {"Sources", "SOURCES"} -> "sources"
    [] w = "History" -> "history"
    [] w = "Intro" -> "intro"
    [] w = "Notes" -> "notes"
    [] w = "Chapter" -> "chapter"
    [] w = "Hello" -> "hello"
    [] w = "Old." -> "old."
    [] OTHER -> w

\* str.lower()
Lower(s) == [n \in 1 .. Len(s) |-> LowerWord(s[n])]

RECURSIVE LStripWhite(_)
LStripWhite(s) == IF s # <<>> /\ IsWhite(Head(s)) THEN LStripWhite(Tail(s)) ELSE s

RECURSIVE RStripWhite(_)
RStripWhite(s) ==
  IF s # <<>> /\ IsWhite(s[Len(s)]) THEN RStripWhite(SubSeq(s, 1, Len(s) - 1)) ELSE s

\* str.strip() of a text
StripWhite(s) == RStripWhite(LStripWhite(s))

\* html.replace("\\n", "\n"); the texts carry no other backslash
Unescape(s) == [n \in 1 .. Len(s) |-> IF s[n] = EscapedNewline THEN "\n" ELSE s[n]]

RECURSIVE RemoveBlockFrom(_, _, _, _)
\* re.sub(r"<script[\s\S]*?</script>", "", html), from position i on
RemoveBlockFrom(s, open, close, i) ==
  IF i > Len(s) THEN <<>>
  ELSE IF s[i] = open /\ \E j \in i + 1 .. Len(s) : s[j] = close
    THEN LET j == CHOOSE j \in i + 1 .. Len(s) :
                    s[j] = close /\ \A m \in i + 1 .. j - 1 : s[m] # close
         IN  RemoveBlockFrom(s, open, close, j + 1)
  ELSE <<s[i]>> \o RemoveBlockFrom(s, open, close, i + 1)

\* the four re.sub of "Remove heavy/noisy blocks"
RemoveBlocks(s) ==
  LET a == RemoveBlockFrom(s, "<script>", "</script>", 1)
      b == RemoveBlockFrom(a, "<noscript>", "</noscript>", 1)
      c == RemoveBlockFrom(b, "<style>", "</style>", 1)
  IN  RemoveBlockFrom(c, "<figure>", "</figure>", 1)

\* re.sub(r"<(?!/?h2\b)[^>]*>", "", html)
KeepOnlyH2(s) == SelectSeq(s, LAMBDA c : c \notin HtmlTags \/ c \in H2Open \/ c = H2Close)

\* re.sub(r"<[^>]+>", "", s)
StripTags(s) == SelectSeq(s, LAMBDA c : c \notin HtmlTags)

\* re.sub(r"&nbsp;", " ", s)
NbspToSpace(s) == [n \in 1 .. Len(s) |-> IF s[n] = Nbsp THEN " " ELSE s[n]]

\* re.sub(r"[ \t]+", " ", s)
CollapseSpaces(s) ==
  SelectSeq([n \in 1 .. Len(s) |-> IF s[n] = " " /\ n > 1 /\ s[n - 1] = " " THEN "" ELSE s[n]],
            LAMBDA c : c # "")

RECURSIVE WhiteRunEnd(_, _)
\* the last position of the run of whitespace that holds position i
WhiteRunEnd(s, i) == IF i < Len(s) /\ IsWhite(s[i + 1]) THEN WhiteRunEnd(s, i + 1) ELSE i

\* the positions of the newlines of the run of whitespace from position i on
RunNewlines(s, i) == {j \in i .. WhiteRunEnd(s, i) : s[j] = "\n"}

SetMax(S) == CHOOSE m \in S : \A n \in S : n <= m

RECURSIVE SquashBlankFrom(_, _)
\* re.sub(r"\n\s*\n\s*\n+", "\n\n", s), from position i on: a match starts at a
\* newline whose run of whitespace holds three newlines and ends at the last of them
SquashBlankFrom(s, i) ==
  IF i > Len(s) THEN <<>>
  ELSE IF s[i] = "\n" /\ Cardinality(RunNewlines(s, i)) >= 3
    THEN <<"\n", "\n">> \o SquashBlankFrom(s, SetMax(RunNewlines(s, i)) + 1)
  ELSE <<s[i]>> \o SquashBlankFrom(s, i + 1)

\* clean_text(s)
clean_text(s) ==
  StripWhite(SquashBlankFrom(CollapseSpaces(NbspToSpace(StripTags(s))), 1))

RECURSIVE NewlineRunEnd(_, _)
NewlineRunEnd(s, i) == IF i < Len(s) /\ s[i + 1] = "\n" THEN NewlineRunEnd(s, i + 1) ELSE i

RECURSIVE SquashNewlinesFrom(_, _)
\* re.sub(r"\n{3,}", "\n\n", pagecontent), from position i on
SquashNewlinesFrom(s, i) ==
  IF i > Len(s) THEN <<>>
  ELSE IF s[i] = "\n" /\ NewlineRunEnd(s, i) - i + 1 >= 3
    THEN <<"\n", "\n">> \o SquashNewlinesFrom(s, NewlineRunEnd(s, i) + 1)
  ELSE <<s[i]>> \o SquashNewlinesFrom(s, i + 1)

RECURSIVE HeadersFrom(_, _)
\* header_re.finditer(h_only) from position i on: start is the position of the
\* <h2 ...> tag, end the position after its </h2>
HeadersFrom(s, i) ==
  IF i > Len(s) THEN <<>>
  ELSE IF s[i] \in H2Open /\ \E j \in i + 1 .. Len(s) : s[j] = H2Close
    THEN LET j == CHOOSE j \in i + 1 .. Len(s) :
                    s[j] = H2Close /\ \A m \in i + 1 .. j - 1 : s[m] # H2Close
         IN  <<[title_html |-> SubSeq(s, i + 1, j - 1), start |-> i, end |-> j + 1]>>
             \o HeadersFrom(s, j + 1)
  ELSE HeadersFrom(s, i + 1)

\* re.sub(r"\[\]$", "", title): $ stands at the end and before a last newline
DropTrailingBrackets(s) ==
  LET n == Len(s)
  IN  IF n >= 2 /\ s[n - 1] = "[" /\ s[n] = "]" THEN SubSeq(s, 1, n - 2)
      ELSE IF n >= 3 /\ s[n - 2] = "[" /\ s[n - 1] = "]" /\ s[n] = "\n"
        THEN SubSeq(s, 1, n - 3) \o <<"\n">>
      ELSE s

\* title of a header: tags stripped, a trailing [] dropped, then strip()
HeadingTitle(title_html) == StripWhite(DropTrailingBrackets(StripTags(title_html)))

RECURSIVE FirstWordFrom(_, _)
FirstWordFrom(s, i) ==
  IF i > Len(s) \/ IsWhite(s[i]) THEN <<>> ELSE <<s[i]>> \o FirstWordFrom(s, i + 1)

\* key.split()[0] if key else ""
FirstWord(key) == IF key = <<>> THEN <<>> ELSE FirstWordFrom(LStripWhite(key), 1)

\* a ban on the exact key only
IsBanned_ExactOnly(key) == key \in BANNED_SECTIONS

\* key in BANNED_SECTIONS or first_word in BANNED_SECTIONS
IsBanned(key) == key \in BANNED_SECTIONS \/ FirstWord(key) \in BANNED_SECTIONS

\* a part that carries the heading marker whatever the title
EmitPart_AlwaysHeading(title, key, body) ==
  IF INCLUDE_HEADINGS /\ key # <<"intro">>
    THEN <<"##", " ">> \o title \o <<"\n", "\n">> \o body
    ELSE body

\* the string appended to parts: f"## {title}\n\n{body}" or body
EmitPart(title, key, body) ==
  IF INCLUDE_HEADINGS /\ title # <<>> /\ key # <<"intro">>
    THEN <<"##", " ">> \o title \o <<"\n", "\n">> \o body
    ELSE body

\* the explicit heading put before a text that precedes the first <h2>
IntroHeading == <<"<h2>", "Intro", "</h2>">>

\* one pass of the loop over headers, title and body given: the key, whether the
\* pass appends and the part it appends
PassOf(title, key, body) ==
  [key |-> key, kept |-> body # <<>> /\ ~IsBanned(key), part |-> EmitPart(title, key, body)]

\* the body of the header at position n: h_only[start:next_start]
BodyHtml(h_only, headers, n) ==
  SubSeq(h_only, headers[n].end,
         (IF n + 1 <= Len(headers) THEN headers[n + 1].start ELSE Len(h_only) + 1) - 1)

\* title = ...; key = title.lower()
TitledPass(title, body) == PassOf(title, Lower(title), body)

\* for i, h in enumerate(headers): every pass of the loop
Passes(h_only, headers) ==
  [n \in 1 .. Len(headers) |->
     TitledPass(HeadingTitle(headers[n].title_html), clean_text(BodyHtml(h_only, headers, n)))]

\* the parts the passes appended
PartsOf(appended) == [n \in 1 .. Len(appended) |-> appended[n].part]

\* pagecontent = "\n\n".join(parts), squashed and stripped; with what the loop went
\* through (parts; keys: key of each header; kept: whether the pass of each header
\* appended)
Joined(iter, parts) ==
  [out |-> StripWhite(SquashNewlinesFrom(Join(parts, <<"\n", "\n">>), 1)),
   parts |-> parts,
   keys |-> [n \in 1 .. Len(iter) |-> iter[n].key],
   kept |-> [n \in 1 .. Len(iter) |-> iter[n].kept]]

LoopResult(iter) == Joined(iter, PartsOf(SelectSeq(iter, LAMBDA r : r.kept)))

\* headers found, loop run
Sectioned(h_only) == LoopResult(Passes(h_only, HeadersFrom(h_only, 1)))

\* clean_pagecontent from h_only on: flattened when it holds no <h2>, else given
\* an explicit Intro when a text precedes the first <h2> and split into sections
FromHOnly(h0) ==
  IF \A n \in 1 .. Len(h0) : h0[n] \notin H2Open
    THEN [out |-> clean_text(h0), parts |-> <<>>, keys |-> <<>>, kept |-> <<>>]
    ELSE Sectioned(IF ~(h0[1] \in H2Open) /\ StripWhite(h0) # <<>>
                     THEN IntroHeading \o h0 ELSE h0)

\* clean_pagecontent(parse), parse["text"] given
clean_pagecontent(text) == FromHOnly(KeepOnlyH2(RemoveBlocks(Unescape(text))))

\* header of write_doc for a page titled T without categories
HeaderLines == <<<<"---">>, <<"title:", " ", "\"", "T", "\"">>, <<"categories:">>, <<"---">>>>

\* content of write_doc: "\n".join(header) + "\n\n" + page.pagecontent + "\n"
write_doc(pagecontent) ==
  Join(HeaderLines, <<"\n">>) \o <<"\n", "\n">> \o pagecontent \o <<"\n">>

\* a section of the page: its <h2 ...> tag, the text inside the heading, the
\* HTML that follows the heading
Section(open, title, body) == [open |-> open, title |-> title, body |-> body]

SecIntro == Section("<h2>", <<"Intro">>, <<"<p>", "Hello", "</p>">>)
SecSources == Section("<h2>", <<"Sources">>, <<"<p>", "x", "</p>">>)
SecHistory == Section("<h2>", <<"History">>, <<"<p>", "Old.", "</p>">>)
SecSourcesAndNotes ==
  Section("<h2>", <<"Sources", " ", "and", " ", "Notes">>, <<"<p>", "x", "</p>">>)
SecSourcesUpper == Section("<h2 id=x>", <<"SOURCES">>, <<"<p>", "x", "</p>">>)
SecHistoryOfTheChapter ==
  Section("<h2>", <<"History", " ", "of", " ", "the", " ", "Chapter">>,
          <<"<p>", "Old.", Nbsp, " ", "x", "</p>", "\n", " ", "\n", "\n",
            "<p>", "Hello", EscapedNewline, "</p>">>)
SecSourcesMarker == Section("<h2>", <<"Sources", "[", "]">>, <<"x">>)
SecSourcesMarkerSpace == Section("<h2>", <<"Sources", "[", "]", " ">>, <<"x">>)
SecUntitled == Section("<h2>", <<>>, <<"<p>", "x", "</p>">>)
SecScriptOnly == Section("<h2>", <<"History">>, <<"<script>", "x", "</script>">>)

PageSections ==
  {SecIntro, SecSources, SecHistory, SecSourcesAndNotes, SecSourcesUpper,
   SecHistoryOfTheChapter, SecSourcesMarker, SecSourcesMarkerSpace, SecUntitled,
   SecScriptOnly}

\* what may stand before the first heading
Preambles == {<<>>, <<"<p>", "Hello", "</p>">>}

RECURSIVE RenderSections(_)
RenderSections(secs) ==
  IF secs = <<>> THEN <<>>
  ELSE <<Head(secs).open>> \o Head(secs).title \o <<H2Close>> \o Head(secs).body
       \o RenderSections(Tail(secs))

\* parse["text"] of a page with the given preamble and sections
RenderPage(pre, secs) == pre \o RenderSections(secs)

CleanInit ==
  /\ c_pc = "call"
  /\ c_pre \in Preambles
  /\ c_secs \in UNION {[1 .. n -> PageSections] : n \in 0 .. MaxSections}
  /\ c_html = RenderPage(c_pre, c_secs)
  /\ c_out = <<>>
  /\ c_parts = <<>>
  /\ c_keys = <<>>
  /\ c_kept = <<>>
  /\ c_doc = <<>>

\* the state before clean_pagecontent is called
CleanIdle ==
  /\ c_pc = "idle"
  /\ c_pre = <<>>
  /\ c_secs = <<>>
  /\ c_html = <<>>
  /\ c_out = <<>>
  /\ c_parts = <<>>
  /\ c_keys = <<>>
  /\ c_kept = <<>>
  /\ c_doc = <<>>

\* what clean_pagecontent and write_doc leave alone
CleanFrame == UNCHANGED <<fetchVars, genVars, catVars, slugVars, mdVars>>

\* cleaned is r.out: the page is written with it
Returned(r) ==
  /\ c_out' = r.out
  /\ c_parts' = r.parts
  /\ c_keys' = r.keys
  /\ c_kept' = r.kept
  /\ c_doc' = write_doc(r.out)

\* cleaned = clean_pagecontent(parsed); write_doc(out_dir, out, taken)
CleanAndWrite ==
  /\ c_pc = "call"
  /\ Returned(clean_pagecontent(c_html))
  /\ c_pc' = "done"
  /\ UNCHANGED <<c_pre, c_secs, c_html>>

CleanNext ==
  \/ CleanAndWrite /\ CleanFrame

(***************************************************************************)
(* KnowledgeGraph/fetch_warhammer_pages_for_lightrag.py: node_to_markdown  *)
(* (the function of v3 is the same, branch for branch).  A node of the     *)
(* parsed page is a record: name "#text" for a NavigableString with its    *)
(* text, else the tag name with its children in order; an img keeps its    *)
(* alt attribute in text.  A string is a sequence of tokens as above.      *)
(***************************************************************************)
\* children of a table element
MaxRows == 2
\* children of a list element
MaxItems == 3

Node(name, text, children) == [name |-> name, text |-> text, children |-> children]
TextNode(text) == Node("#text", text, <<>>)
El(name, children) == Node(name, <<>>, children)

\* sum(parts, []): the members of the parts, in order
Flatten(parts) == Join(parts, <<>>)

RECURSIVE AllStrings(_)
\* the strings under a node, in document order
AllStrings(node) ==
  IF node.name = "#text" THEN <<node.text>>
  ELSE Flatten([n \in 1 .. Len(node.children) |-> AllStrings(node.children[n])])

\* every string stripped, the empty ones left out
StrippedStrings(strs) ==
  SelectSeq([n \in 1 .. Len(strs) |-> StripWhite(strs[n])], LAMBDA t : t # <<>>)

\* c.get_text(" ", strip=True)
GetText(node) == Join(StrippedStrings(AllStrings(node)), <<" ">>)

\* find_all(names, recursive=False): the direct children with one of the names
DirectChildren(node, names) == SelectSeq(node.children, LAMBDA c : c.name \in names)

RECURSIVE SplitLinesFrom(_, _, _)
\* text.splitlines() of a stripped text: cur is the line being read
SplitLinesFrom(s, i, cur) ==
  IF i > Len(s) THEN <<cur>>
  ELSE IF s[i] = "\n" THEN <<cur>> \o SplitLinesFrom(s, i + 1, <<>>)
  ELSE SplitLinesFrom(s, i + 1, Append(cur, s[i]))

\* f"> {line}" if line.strip() else ">"
QuoteLine(line) == IF StripWhite(line) # <<>> THEN <<">", " ">> \o line ELSE <<">">>

\* "\n".join(of the quoted lines)
Quoted2(lines) == Join([n \in 1 .. Len(lines) |-> QuoteLine(lines[n])], <<"\n">>)

\* "#" * level
Hashes(level) == [n \in 1 .. level |-> "#"]

\* int(name[1]) of a heading
HeadingLevel(name) ==
  CASE name = "h1" -> 1 [] name = "h2" -> 2 [] name = "h3" -> 3
    [] name = "h4" -> 4 [] name = "h5" -> 5 [] name = "h6" -> 6

\* a marker that counts from 0
ItemMarker_FromZero(name, i) ==
  IF name = "ul" THEN <<"-", " ">> ELSE IntStr(i - 1) \o <<".", " ">>

\* "- " of an unordered list, f"{i}. " of an ordered one
ItemMarker(name, i) == IF name = "ul" THEN <<"-", " ">> ELSE IntStr(i) \o <<".", " ">>

\* the pass of the loop for the i-th li, its text given: continue or one item
ItemOf(name, i, item_md) == IF item_md = <<>> THEN <<>> ELSE <<ItemMarker(name, i) \o item_md>>

\* tr.find_all(["th", "td"], recursive=False) with get_text of each
ColsOf(tr) ==
  LET cells == DirectChildren(tr, {"th", "td"})
  IN  [n \in 1 .. Len(cells) |-> GetText(cells[n])]

\* if cols: rows.append(" | ".join(cols))
RowOf(cols) == IF cols = <<>> THEN <<>> ELSE <<Join(cols, <<" ", "|", " ">>)>>

\* "\n".join(lines) + "\n\n" if lines else ""
Block(lines) == IF lines = <<>> THEN <<>> ELSE Join(lines, <<"\n">>) \o <<"\n", "\n">>

\* f"{prefix}{text}\n\n" if text else ""
Para(prefix, text) == IF text = <<>> THEN <<>> ELSE prefix \o text \o <<"\n", "\n">>

\* the blockquote branch, its stripped text given
QuoteBlock(text) ==
  IF text = <<>> THEN <<>> ELSE Quoted2(SplitLinesFrom(text, 1, <<>>)) \o <<"\n", "\n">>

RECURSIVE node_to_markdown(_)

\* "".join(node_to_markdown(c) for c in node.children)
Inner(node) == Flatten([n \in 1 .. Len(node.children) |-> node_to_markdown(node.children[n])])

\* the lists branch: one pass for each direct li child, numbered from 1
ListItems(name, lis) ==
  Flatten([n \in 1 .. Len(lis) |-> ItemOf(name, n, StripWhite(Inner(lis[n])))])

\* the tables branch: one pass for each direct tr child
TableRows(trs) == Flatten([n \in 1 .. Len(trs) |-> RowOf(ColsOf(trs[n]))])

\* node_to_markdown(node)
node_to_markdown(node) ==
  CASE node.name = "#text" -> node.text
    [] node.name \in {"h1", "h2", "h3", "h4", "h5", "h6"} ->
         Para(Hashes(HeadingLevel(node.name)) \o <<" ">>, StripWhite(Inner(node)))
    [] node.name = "p" -> Para(<<>>, StripWhite(Inner(node)))
    [] node.name = "br" -> <<"\n">>
    [] node.name \in {"ul", "ol"} ->
         Block(ListItems(node.name, DirectChildren(node, {"li"})))
    [] node.name = "li" -> Inner(node)
    [] node.name = "table" -> Block(TableRows(DirectChildren(node, {"tr"})))
    [] node.name = "blockquote" -> QuoteBlock(StripWhite(Inner(node)))
    [] node.name = "img" -> StripWhite(node.text)
    [] OTHER -> Inner(node)

\* the cells and rows the tables of the model are made of
CellA == El("td", <<TextNode(<<"a">>)>>)
CellB == El("th", <<TextNode(<<" ", "b", "\n">>)>>)
TableRowSet == {El("tr", <<>>), El("tr", <<CellA>>), El("tr", <<CellB, CellA>>)}
RowGroups == {"tbody", "thead", "tfoot"}
TableChildren == TableRowSet \cup {El(g, <<r>>) : g \in RowGroups, r \in TableRowSet}
TableNodes == {El("table", ch) : ch \in UNION {[1 .. n -> TableChildren] : n \in 0 .. MaxRows}}

\* the children the lists of the model are made of: items with a text, without
\* one, with blanks only, with a nested list, and a string between two items
ItemA == El("li", <<TextNode(<<"a">>)>>)
ItemB == El("li", <<TextNode(<<" ", "b">>)>>)
ItemEmpty == El("li", <<>>)
ItemBlank == El("li", <<TextNode(<<" ">>)>>)
ItemNested == El("li", <<TextNode(<<"a">>), El("ul", <<ItemB>>)>>)
ListChildren == {ItemA, ItemB, ItemEmpty, ItemBlank, ItemNested, TextNode(<<"\n">>)}
ListNodes ==
  {El(name, ch) : name \in {"ul", "ol"},
                  ch \in UNION {[1 .. n -> ListChildren] : n \in 0 .. MaxItems}}

\* nodes of the other branches
OtherNodes ==
  {TextNode(<<"a", " ">>),
   El("h2", <<TextNode(<<" ", "a">>)>>),
   El("h3", <<>>),
   El("p", <<TextNode(<<"a">>), El("br", <<>>), TextNode(<<"b", " ">>)>>),
   El("p", <<TextNode(<<" ">>)>>),
   El("blockquote", <<TextNode(<<"a", "\n", " ", "\n", "b">>)>>),
   El("blockquote", <<>>),
   Node("img", <<" ", "a", " ">>, <<>>),
   El("div", <<El("p", <<TextNode(<<"a">>)>>), ItemB>>)}

MdNodes == TableNodes \cup ListNodes \cup OtherNodes

MdInit ==
  /\ m_pc = "call"
  /\ m_node \in MdNodes
  /\ m_out = <<>>

\* the state before node_to_markdown is called
MdIdle ==
  /\ m_pc = "idle"
  /\ m_node = TextNode(<<>>)
  /\ m_out = <<>>

\* what node_to_markdown leaves alone
MdFrame == UNCHANGED <<fetchVars, genVars, catVars, slugVars, cleanVars>>

\* md = node_to_markdown(child)
Convert ==
  /\ m_pc = "call"
  /\ m_out' = node_to_markdown(m_node)
  /\ m_pc' = "done"
  /\ UNCHANGED m_node

MdNext ==
  \/ Convert /\ MdFrame

(***************************************************************************)
(* The programs, one specification each.                                   *)
(***************************************************************************)
FetchSpecInit == FetchInit /\ GenIdle /\ CatIdle /\ SlugIdle /\ CleanIdle /\ MdIdle
SpecFetch == FetchSpecInit /\ [][FetchNext]_vars

FetchV3SpecInit == FetchInit /\ GenIdle /\ CatIdle /\ SlugIdle /\ CleanIdle /\ MdIdle
SpecFetchV3 == FetchV3SpecInit /\ [][FetchV3Next]_vars

CrawlSpecInit == GenInit /\ FetchIdle /\ CatIdle /\ SlugIdle /\ CleanIdle /\ MdIdle
SpecCrawl == CrawlSpecInit /\ [][CrawlNext]_vars

CategoriesSpecInit == CatInit /\ FetchIdle /\ GenIdle /\ SlugIdle /\ CleanIdle /\ MdIdle
SpecCategories == CategoriesSpecInit /\ [][CatNext]_vars

SlugSpecInit == SlugInit /\ FetchIdle /\ GenIdle /\ CatIdle /\ CleanIdle /\ MdIdle
SpecSlug == SlugSpecInit /\ [][SlugNext]_vars

CleanSpecInit == CleanInit /\ FetchIdle /\ GenIdle /\ CatIdle /\ SlugIdle /\ MdIdle
SpecClean == CleanSpecInit /\ [][CleanNext]_vars

MarkdownSpecInit == MdInit /\ FetchIdle /\ GenIdle /\ CatIdle /\ SlugIdle /\ CleanIdle
SpecMarkdown == MarkdownSpecInit /\ [][MdNext]_vars

(***************************************************************************)
(* Claims about page_generator, checked under SpecCrawl.                   *)
(***************************************************************************)
\* the step issues a session.get
Requested == g_reqs' = g_reqs + 1

C7_StopsWithoutContinue ==
  /\ [][(g_outcome = "ok" /\ ~g_data.hasCont) => g_reqs' = g_reqs]_vars
  /\ []((g_outcome = "ok" /\ ~g_data.hasCont)
          => \/ g_pc \in {"done", "returned"}
             \/ g_pc = "yield" /\ g_next \in 1 .. g_data.pages)
  /\ [][(Requested /\ g_outcome' = "ok" /\ ~g_data'.hasCont /\ g_data'.pages = 0)
        => g_pc' = "done"]_vars
  /\ [][(g_pc = "yield" /\ ~g_data.hasCont /\ g_next = g_data.pages) => g_pc' = "done"]_vars

C7_Witness ==
  /\ g_pc = "returned"
  /\ g_reqs = 2
  /\ g_data = [query |-> TRUE, pages |-> 0, hasCont |-> FALSE, cont |-> EmptyToken,
               error |-> FALSE]
  /\ Len(rows) = 2

\* C8: the first request carries the base parameters alone; every later request
\* carries the base parameters overlaid with exactly the continue object of the most
\* recent decoded response; a request that follows a failed one carries the same
\* parameters as the failed one
C8_CursorFromLatestResponse ==
  /\ [][Requested
        => g_params' = (IF g_decoded THEN Merge(BaseParams, g_data.cont) ELSE BaseParams)]_vars
  /\ [][(Requested /\ g_outcome \in FailureKinds) => g_params' = g_params]_vars

C8_Witness ==
  /\ g_reqs = 4
  /\ g_params = Merge(BaseParams, TokenAlt)
  /\ "gapcontinue" \notin Keys(g_params)
  /\ g_outcome = "ok"
  /\ cont = TokenB

\* C18: a listing response that is an API error object does not end the sequence
\* as if the listing were complete: the request is repeated or a failure is
\* signalled, and collect_all_urls does not return after such a response
C18_ErrorObjectNotCompletion ==
  /\ [][(Requested /\ g_outcome' = "ok" /\ g_data'.error)
        => g_pc' \in {"request", "raised"}]_vars
  /\ [](g_pc = "returned" => ~g_data.error)

(***************************************************************************)
(* Claims about normalize_categories, checked under SpecCategories.        *)
(***************************************************************************)
\* C10: in each of the three accepted shapes (JSON array, comma-separated string,
\* records with the name under '*') the same categories give the same list: the
\* plain names, in order of first occurrence, without duplicates
C10_SameListForEveryShape ==
  n_pc = "done" => n_out = DictFromKeys(n_names)


(***************************************************************************)
(* Claims about safe_filename, checked under SpecSlug.                     *)
(***************************************************************************)
\* a returned file name without its extension
Stem(name) == SubSeq(name, 1, Len(name) - Len(Ext))

\* C11: over the calls that share one taken set, the returned names are pairwise
\* distinct, a title that was seen before gets its base with a numeric suffix, the
\* returned name without extension is in taken, and taken never loses an element
C11_NamesDistinct ==
  /\ [](\A i, j \in 1 .. Len(s_names) : i < j => s_names[i] # s_names[j])
  /\ [](\A i, j \in 1 .. Len(s_names) :
          (i < j /\ s_titles[i] = s_titles[j])
          => \E k \in 2 .. j : s_names[j] = Candidate(SlugBase(s_titles[j]), k) \o Ext)
  /\ [](\A i \in 1 .. Len(s_names) : Stem(s_names[i]) \in taken)
  /\ [][taken \subseteq taken']_vars
  /\ [][Len(s_names') = Len(s_names) + 1
        => Stem(s_names'[Len(s_names')]) \in taken']_vars

C11_Witness ==
  /\ s_titles = <<TitleA, TitleA2, TitleA>>
  /\ s_names = <<<<"A">> \o Ext, <<"A", "_", "2">> \o Ext, <<"A", "_", "3">> \o Ext>>
  /\ taken = {<<"A">>, <<"A", "_", "2">>, <<"A", "_", "3">>}

\* C12 as stated: every slug safe_filename produces is non-empty and no longer
\* than a fixed maximum length, whatever the length of the title
C12_SlugLengthBounded ==
  \A i \in 1 .. Len(s_names) :
    /\ Len(Stem(s_names[i])) >= 1
    /\ Len(Stem(s_names[i])) <= MaxSlugLen


(***************************************************************************)
(* Claims about clean_pagecontent and write_doc, checked under SpecClean.  *)
(***************************************************************************)
\* the cleaned text of the HTML that follows a heading
PlainBody(body) == clean_text(KeepOnlyH2(RemoveBlocks(Unescape(body))))

\* the sections of a page, a text before the first heading being the section Intro
SectionsOf(pre, secs) ==
  (IF PlainBody(pre) # <<>> THEN <<Section("<h2>", <<"Intro">>, pre)>> ELSE <<>>) \o secs

SectionKey(sec) == Lower(HeadingTitle(sec.title))

\* the section has a body and neither its key nor the first word of its key is banned
Survives(sec) ==
  /\ PlainBody(sec.body) # <<>>
  /\ SectionKey(sec) \notin BANNED_SECTIONS
  /\ FirstWord(SectionKey(sec)) \notin BANNED_SECTIONS

\* C13: a section with a non-empty cleaned body is kept if and only if neither its
\* key nor the first word of its key is a banned name; 'Sources and Notes' and
\* 'SOURCES' are dropped, 'History of the Chapter' is kept
C13_BannedSectionsDropped ==
  (c_pc = "done" /\ c_secs # <<>>) =>
    LET secs == SectionsOf(c_pre, c_secs)
    IN  /\ c_keys = [n \in 1 .. Len(secs) |-> SectionKey(secs[n])]
        /\ c_kept = [n \in 1 .. Len(secs) |-> Survives(secs[n])]
        /\ Len(c_parts) = Cardinality({n \in 1 .. Len(secs) : Survives(secs[n])})
        /\ \A n \in 1 .. Len(secs) :
             /\ secs[n] \in {SecSourcesAndNotes, SecSourcesUpper} => ~c_kept[n]
             /\ secs[n] = SecHistoryOfTheChapter => c_kept[n]

C13_Witness ==
  /\ c_pc = "done"
  /\ c_pre = <<>>
  /\ c_secs = <<SecSourcesAndNotes, SecSourcesUpper, SecHistoryOfTheChapter>>
  /\ c_kept = <<FALSE, FALSE, TRUE>>
  /\ c_out = <<"##", " ", "History", " ", "of", " ", "the", " ", "Chapter", "\n", "\n",
               "Old.", " ", "x", "\n", "\n", "Hello">>

\* what precedes page.pagecontent in the written file
DocPrefix == Join(HeaderLines, <<"\n">>) \o <<"\n", "\n">>

\* the page of the example: Intro / Hello, Sources / x, History / Old.
ExampleSections == <<SecIntro, SecSources, SecHistory>>

\* the surviving sections in page order, each as emit gives it, one blank line between
BodyOf(pre, secs, emit(_)) ==
  LET surv == SelectSeq(SectionsOf(pre, secs), Survives)
  IN  Join([n \in 1 .. Len(surv) |-> emit(surv[n])], <<"\n", "\n">>)

HeadingAndBody(sec) ==
  <<"##", " ">> \o HeadingTitle(sec.title) \o <<"\n", "\n">> \o PlainBody(sec.body)

\* every survivor but the intro section carries the heading marker
EmitAsStated(sec) ==
  IF SectionKey(sec) = <<"intro">> THEN PlainBody(sec.body) ELSE HeadingAndBody(sec)

\* a survivor carries the heading marker unless it is the intro section or has no title
EmitTitled(sec) ==
  IF SectionKey(sec) = <<"intro">> \/ HeadingTitle(sec.title) = <<>>
    THEN PlainBody(sec.body) ELSE HeadingAndBody(sec)

\* C14 as stated: the written body is the surviving sections in page order, one
\* blank line between them, every non-intro survivor as '## <title>', a blank line
\* and its body, the intro section as its body alone
C14_HeadingOnEveryNonIntro ==
  c_pc = "done" =>
    /\ c_out = BodyOf(c_pre, c_secs, EmitAsStated)
    /\ c_doc = DocPrefix \o c_out \o <<"\n">>

\* C14, amended: the written body is the surviving sections in page order, one blank
\* line between them; a survivor with a non-empty title other than intro is emitted
\* as '## <title>', a blank line and its body, the intro section and a survivor with
\* an empty title as the body alone; the example page gives
\* 'Hello\n\n## History\n\nOld.\n'
C14_HeadingOnTitledNonIntro ==
  c_pc = "done" =>
    /\ c_out = BodyOf(c_pre, c_secs, EmitTitled)
    /\ c_doc = DocPrefix \o c_out \o <<"\n">>
    /\ (c_pre = <<>> /\ c_secs = ExampleSections)
         => c_doc = DocPrefix \o <<"Hello", "\n", "\n", "##", " ", "History", "\n", "\n",
                                   "Old.", "\n">>

C14_Witness ==
  /\ c_pc = "done"
  /\ c_pre = <<>>
  /\ c_secs = <<SecIntro, SecUntitled, SecHistory>>
  /\ c_out = <<"Hello", "\n", "\n", "x", "\n", "\n", "##", " ", "History", "\n", "\n", "Old.">>

\* the key as C16 has it: tags stripped, a trailing '[]' removed whatever whitespace
\* stands before or after it, whitespace trimmed, lowercase
StatedKey(title) ==
  LET t == StripWhite(StripTags(title))
      n == Len(t)
  IN  Lower(StripWhite(IF n >= 2 /\ t[n - 1] = "[" /\ t[n] = "]"
                         THEN SubSeq(t, 1, n - 2) ELSE t))

\* C16 as stated: the key of a heading is its title lowercased with a trailing '[]'
\* removed whatever whitespace stands before or after it, so a heading that shows a
\* banned name, '[]' and optional whitespace has the banned name as key and its
\* section is dropped
C16_MarkerRemovedWhateverWhitespace ==
  (c_pc = "done" /\ c_secs # <<>>) =>
    LET secs == SectionsOf(c_pre, c_secs)
    IN  /\ Len(c_keys) = Len(secs)
        /\ \A n \in 1 .. Len(secs) :
             /\ c_keys[n] = StatedKey(secs[n].title)
             /\ StatedKey(secs[n].title) \in BANNED_SECTIONS => ~c_kept[n]


(***************************************************************************)
(* Claims about node_to_markdown, checked under SpecMarkdown.              *)
(***************************************************************************)
\* the row elements of a table: its direct rows and the rows of its row groups
RowsOfTable(table) ==
  Flatten([n \in 1 .. Len(table.children) |->
             IF table.children[n].name = "tr" THEN <<table.children[n]>>
             ELSE IF table.children[n].name \in RowGroups
               THEN DirectChildren(table.children[n], {"tr"})
             ELSE <<>>])

\* the rows of a table that have a th or td cell
RowsWithCells(table) ==
  SelectSeq(RowsOfTable(table), LAMBDA tr : DirectChildren(tr, {"th", "td"}) # <<>>)

\* the cell texts of a row joined by ' | '
RowLine(tr) ==
  LET cells == DirectChildren(tr, {"th", "td"})
  IN  Join([n \in 1 .. Len(cells) |-> GetText(cells[n])], <<" ", "|", " ">>)

\* C15 as stated: a table gives one line for each of its rows that has a cell, in
\* row order, the cell texts joined by ' | ', whether the row is a direct child of
\* the table or sits inside tbody, thead or tfoot; it gives no output only when no
\* row has a cell
C15_RowsInsideGroupsRendered ==
  (m_pc = "done" /\ m_node.name = "table") =>
    LET trs == RowsWithCells(m_node)
    IN  /\ m_out = Block([n \in 1 .. Len(trs) |-> RowLine(trs[n])])
        /\ m_out = <<>> <=> trs = <<>>

\* the direct li children of a list, and the text of one
LisOf(list) == SelectSeq(list.children, LAMBDA c : c.name = "li")
ItemText(li) == StripWhite(Inner(li))

\* the positions, among the direct li children, of the items with a text
NonEmptyPositions(list) == {n \in 1 .. Len(LisOf(list)) : ItemText(LisOf(list)[n]) # <<>>}

RECURSIVE Ascending(_)
\* the members of a set of numbers in ascending order
Ascending(S) ==
  IF S = {} THEN <<>>
  ELSE LET m == CHOOSE m \in S : \A n \in S : m <= n IN <<m>> \o Ascending(S \ {m})

\* C17 as stated: an ordered list gives one line for each non-empty item, and the k
\* lines carry the consecutive numbers 1, 2, ..., k
C17_ConsecutiveNumbers ==
  (m_pc = "done" /\ m_node.name = "ol") =>
    LET pos == Ascending(NonEmptyPositions(m_node))
    IN  m_out = Block([n \in 1 .. Len(pos) |->
                         IntStr(n) \o <<".", " ">> \o ItemText(LisOf(m_node)[pos[n]])])

\* C17, amended: an ordered list gives one line for each non-empty direct item, in
\* order, and each line carries the 1-based position of its item among all the
\* direct items of the list, the empty ones counted: the number of an omitted item
\* is skipped
C17_NumberedByPosition ==
  (m_pc = "done" /\ m_node.name = "ol") =>
    LET pos == Ascending(NonEmptyPositions(m_node))
    IN  m_out = Block([n \in 1 .. Len(pos) |->
                         IntStr(pos[n]) \o <<".", " ">> \o ItemText(LisOf(m_node)[pos[n]])])

C17_Witness ==
  /\ m_pc = "done"
  /\ m_node = El("ol", <<ItemA, ItemEmpty, ItemB>>)
  /\ m_out = <<"1", ".", " ", "a", "\n", "3", ".", " ", "b", "\n", "\n">>

====
